---- MODULE Spec2Model ----
(***************************************************************************)
(* Transaction-group engine of Muquirano (src/db/database.py): creation of *)
(* simple, installment and recurring transactions, single-record update    *)
(* and delete, group delete, group rename and recurring-group reprice,     *)
(* over the SQLite table "transactions", and the save of the edit dialog   *)
(* (src/app/ui.py, EditTransactionDialog) that drives them.                *)
(*                                                                         *)
(* Representation                                                          *)
(*  - the table is a set of rows, one record per row, columns named as in  *)
(*    the CREATE TABLE statement;                                          *)
(*  - amounts (Python floats) are held in thousandths of the currency unit *)
(*    ("mills"), so that round(total_amount * 100) is a real conversion;   *)
(*  - text is a sequence of tokens (one token per character, the word      *)
(*    "Recorrente" being a single token); dates are stored as text, a      *)
(*    sequence of character codes, and compared as SQLite compares TEXT;   *)
(*  - a uuid4 is the ordinal of its generation;                            *)
(*  - a connection is a pair (committed table, table as seen inside the    *)
(*    open transaction); commit publishes the second, close and rollback   *)
(*    discard it.                                                          *)
(***************************************************************************)
EXTENDS Integers, Sequences, FiniteSets, TLC

VARIABLES transactions, seq, uuids, ret, before, calls, single_deleted, previous

vars == <<transactions, seq, uuids, ret, before, calls, single_deleted, previous>>

(***************************************************************************)
(* Bounds of the model.                                                    *)
(***************************************************************************)
MaxInstallments == 3
MaxOccurrences == 3
MaxRows == 4
MaxCalls == 3

\* largest occurrence_index given to _calculate_next_occurrence_date on its own
MaxIndex == 14

(***************************************************************************)
(* SQL NULL / Python None.                                                 *)
(***************************************************************************)
NULL == -1
NULL_TEXT == "NULL"

Min(a, b) == IF a <= b THEN a ELSE b

(***************************************************************************)
(* Text.                                                                   *)
(***************************************************************************)
Digits == <<"0", "1", "2", "3", "4", "5", "6", "7", "8", "9">>

RECURSIVE Str(_)
\* str(n) / f"{n}" for n >= 0
Str(n) == IF n < 10 THEN <<Digits[n + 1]>> ELSE Str(n \div 10) \o <<Digits[(n % 10) + 1]>>

RECURSIVE LStrip(_)
LStrip(s) == IF s # <<>> /\ Head(s) = " " THEN LStrip(Tail(s)) ELSE s

RECURSIVE RStrip(_)
RStrip(s) == IF s # <<>> /\ s[Len(s)] = " " THEN RStrip(SubSeq(s, 1, Len(s) - 1)) ELSE s

\* str.strip()
Strip(s) == RStrip(LStrip(s))

\* position and count exchanged
InstallmentDescription_swapped(description, num, total) ==
    description \o <<" ", "(">> \o Str(total) \o <<"/">> \o Str(num) \o <<")">>

\* f"{description} ({num}/{total})"
InstallmentDescription(description, num, total) ==
    description \o <<" ", "(">> \o Str(num) \o <<"/">> \o Str(total) \o <<")">>

\* f"{description} (Recorrente {num}/{total})"
OccurrenceDescription(description, num, total) ==
    description \o <<" ", "(", "Recorrente", " ">> \o Str(num) \o <<"/">> \o Str(total) \o <<")">>

(***************************************************************************)
(* Calendar (datetime.date, dateutil.relativedelta).                       *)
(***************************************************************************)
MAXYEAR == 9999

IsLeap(y) == (y % 4 = 0) /\ ((y % 100 # 0) \/ (y % 400 = 0))

DaysInMonth(y, m) ==
    IF m = 2 THEN (IF IsLeap(y) THEN 29 ELSE 28)
    ELSE IF m \in {4, 6, 9, 11} THEN 30 ELSE 31

Date(y, m, d) == [year |-> y, month |-> m, day |-> d]

\* two decimal digits, zero padded, as character codes
Pad2(n) == <<48 + (n \div 10), 48 + (n % 10)>>

Pad4(n) == <<48 + (n \div 1000), 48 + ((n \div 100) % 10), 48 + ((n \div 10) % 10), 48 + (n % 10)>>

\* date.strftime("%Y-%m-%d"), QDate.toString("yyyy-MM-dd")
Strftime(dt) == Pad4(dt.year) \o <<45>> \o Pad2(dt.month) \o <<45>> \o Pad2(dt.day)

\* datetime.strptime(date_str, "%Y-%m-%d").date()
Strptime(s) ==
    Date((s[1] - 48) * 1000 + (s[2] - 48) * 100 + (s[3] - 48) * 10 + (s[4] - 48),
         (s[6] - 48) * 10 + (s[7] - 48),
         (s[9] - 48) * 10 + (s[10] - 48))

RECURSIVE TextLess(_, _)
\* s < t for SQLite TEXT values under the BINARY collation
TextLess(s, t) ==
    IF t = <<>> THEN FALSE
    ELSE IF s = <<>> THEN TRUE
    ELSE IF Head(s) # Head(t) THEN Head(s) < Head(t)
    ELSE TextLess(Tail(s), Tail(t))

\* SQL: s > t
TextGE_strict(s, t) == TextLess(t, s)

\* SQL: s >= t
TextGE(s, t) == ~TextLess(s, t)

Err(e) == [error |-> e]

IsError(x) == "error" \in DOMAIN x

\* date.replace(day = d)
ReplaceDay(dt, d) ==
    IF d >= 1 /\ d <= DaysInMonth(dt.year, dt.month) THEN Date(dt.year, dt.month, d)
    ELSE Err("ValueError")

\* variant: a day past the end of the target month becomes the 28th
AddMonths_clamped_to_28(dt, n) ==
    LET k == (dt.month - 1) + n
        y == dt.year + (k \div 12)
        m == (k % 12) + 1
    IN  IF y > MAXYEAR THEN Err("ValueError")
        ELSE Date(y, m, IF dt.day > DaysInMonth(y, m) THEN 28 ELSE dt.day)

\* dt + relativedelta(months = n): the day is clamped to the target month,
\* date.replace raises ValueError when the year leaves the calendar
AddMonths(dt, n) ==
    LET k == (dt.month - 1) + n
        y == dt.year + (k \div 12)
        m == (k % 12) + 1
    IN  IF y > MAXYEAR THEN Err("ValueError")
        ELSE Date(y, m, Min(dt.day, DaysInMonth(y, m)))

\* variant: 29 February always becomes 28 February
AddYears_leaving_leap_day(dt, n) ==
    LET y == dt.year + n
    IN  IF y > MAXYEAR THEN Err("ValueError")
        ELSE Date(y, dt.month, IF dt.month = 2 /\ dt.day = 29 THEN 28 ELSE dt.day)

\* dt + relativedelta(years = n)
AddYears(dt, n) ==
    LET y == dt.year + n
    IN  IF y > MAXYEAR THEN Err("ValueError")
        ELSE Date(y, dt.month, Min(dt.day, DaysInMonth(y, dt.month)))

RECURSIVE AddDays(_, _)
\* dt + timedelta(days = n), n >= 0: OverflowError when the year leaves the calendar
AddDays(dt, n) ==
    LET dim == DaysInMonth(dt.year, dt.month)
    IN  IF dt.day + n <= dim THEN Date(dt.year, dt.month, dt.day + n)
        ELSE IF dt.month = 12
             THEN (IF dt.year + 1 > MAXYEAR THEN Err("OverflowError")
                   ELSE AddDays(Date(dt.year + 1, 1, 1), n - (dim - dt.day) - 1))
             ELSE AddDays(Date(dt.year, dt.month + 1, 1), n - (dim - dt.day) - 1)

\* variant: a week counted as 14 days
AddWeeks_of_fourteen_days(dt, n) == AddDays(dt, 14 * n)

\* dt + relativedelta(weeks = n)
AddWeeks(dt, n) == AddDays(dt, 7 * n)

(***************************************************************************)
(* _calculate_next_occurrence_date: a date, or the exception it raises.    *)
(***************************************************************************)
calculate_next_occurrence_date(start_date, frequency, occurrence_index) ==
    IF frequency = "monthly" THEN
        LET first == AddMonths(start_date, occurrence_index)
        IN  IF ~IsError(first) THEN first
            ELSE LET next_date == AddMonths(ReplaceDay(start_date, 1), occurrence_index + 1)
                 IN  IF IsError(next_date) THEN next_date
                     ELSE IF ~IsError(ReplaceDay(next_date, start_date.day))
                          THEN ReplaceDay(next_date, start_date.day)
                          ELSE Date(next_date.year, next_date.month,
                                    DaysInMonth(next_date.year, next_date.month))
    ELSE IF frequency = "weekly" THEN AddWeeks(start_date, occurrence_index)
    ELSE IF frequency = "yearly" THEN
        LET first == AddYears(start_date, occurrence_index)
        IN  IF ~IsError(first) THEN first
            ELSE AddYears(ReplaceDay(start_date, 28), occurrence_index)
    ELSE Err("ValueError")

(***************************************************************************)
(* _calculate_installment_amounts                                          *)
(***************************************************************************)
\* round(total_amount * 100): nearest integer, ties to even
RoundCents(mills) ==
    LET q == mills \div 10
        r == mills % 10
    IN  IF r < 5 THEN q
        ELSE IF r > 5 THEN q + 1
        ELSE IF q % 2 = 0 THEN q ELSE q + 1

\* installment_cents / 100.0
FromCents(cents) == cents * 10

\* every installment gets the base amount, the remainder is dropped
calculate_installment_amounts_without_remainder(total_amount, num_installments) ==
    LET total_cents == RoundCents(total_amount)
        base_cents == total_cents \div num_installments
    IN  [i \in 1..num_installments |-> FromCents(base_cents)]

\* variant: the extra cents go to the last installments
calculate_installment_amounts_back_loaded(total_amount, num_installments) ==
    LET total_cents == RoundCents(total_amount)
        base_cents == total_cents \div num_installments
        remainder_cents == total_cents % num_installments
    IN  [i \in 1..num_installments |->
            FromCents(IF i > num_installments - remainder_cents THEN base_cents + 1 ELSE base_cents)]

calculate_installment_amounts(total_amount, num_installments) ==
    LET total_cents == RoundCents(total_amount)
        base_cents == total_cents \div num_installments
        remainder_cents == total_cents % num_installments
    IN  [i \in 1..num_installments |->
            FromCents(IF (i - 1) < remainder_cents THEN base_cents + 1 ELSE base_cents)]

(***************************************************************************)
(* The table and a connection to it.                                       *)
(***************************************************************************)
\* one row of "transactions"; columns an INSERT does not name are NULL
\* (is_recurring: DEFAULT 0)
Row(id, user_id, type, amount, date, description, installment_group_id, installment_number, total_installments, is_recurring, recurring_group_id, recurrence_frequency, occurrence_number, total_occurrences_in_group) ==
    [id |-> id, user_id |-> user_id, type |-> type, amount |-> amount,
     date |-> date, description |-> description,
     installment_group_id |-> installment_group_id,
     installment_number |-> installment_number,
     total_installments |-> total_installments,
     is_recurring |-> is_recurring,
     recurring_group_id |-> recurring_group_id,
     recurrence_frequency |-> recurrence_frequency,
     occurrence_number |-> occurrence_number,
     total_occurrences_in_group |-> total_occurrences_in_group]

\* sqlite3.connect(DB_NAME): nothing pending yet
Connect(table) == [committed |-> table, pending |-> table]

\* cursor.execute(INSERT/UPDATE/DELETE): the statement acts inside the open transaction
Execute(conn, table) == [conn EXCEPT !.pending = table]

\* conn.commit()
Commit(conn) == conn.pending

\* conn.close() with uncommitted statements: they are discarded
Close(conn) == conn.committed

\* the statements already executed stay in the table
Rollback_keeping_changes(conn) == conn.pending

\* conn.rollback()
Rollback(conn) == conn.committed

\* the rows of a list of created transactions
Range(list) == {list[i] : i \in DOMAIN list}

RECURSIVE ById(_)
\* rows in rowid order, the order in which SELECT returns them
ById(rows) ==
    IF rows = {} THEN <<>>
    ELSE LET first == CHOOSE r \in rows : \A q \in rows : r.id <= q.id
         IN  <<first>> \o ById(rows \ {first})

\* variant: every call yields the same value
uuid4_repeating(uuid_count) == 1

\* str(uuid.uuid4()): a value no earlier call has returned
uuid4(uuid_count) == uuid_count + 1

\* variant: the database value "monthly" is accepted as an input too
FREQUENCY_MAPPING_with_monthly == [mensal |-> "monthly", semanal |-> "weekly", anual |-> "yearly", monthly |-> "monthly"]

FREQUENCY_MAPPING == [mensal |-> "monthly", semanal |-> "weekly", anual |-> "yearly"]

\* the group identifier is also written to installment_group_id
OccurrenceRow_in_both_groups(last_id, user_id, type, amount_per_occurrence, occurrence_date, description, current_recurring_group_id, db_frequency, occurrence_idx, num_occurrences_to_generate_input) ==
    LET occurrence_num == occurrence_idx + 1
    IN  Row(last_id + occurrence_num, user_id, type, amount_per_occurrence,
            Strftime(occurrence_date),
            OccurrenceDescription(description, occurrence_num, num_occurrences_to_generate_input),
            current_recurring_group_id, NULL, NULL,
            TRUE, current_recurring_group_id, db_frequency, occurrence_num,
            num_occurrences_to_generate_input)

\* the row one pass of the recurring loop inserts (lastrowid = last_id + occurrence_num)
OccurrenceRow(last_id, user_id, type, amount_per_occurrence, occurrence_date, description, current_recurring_group_id, db_frequency, occurrence_idx, num_occurrences_to_generate_input) ==
    LET occurrence_num == occurrence_idx + 1
    IN  Row(last_id + occurrence_num, user_id, type, amount_per_occurrence,
            Strftime(occurrence_date),
            OccurrenceDescription(description, occurrence_num, num_occurrences_to_generate_input),
            NULL, NULL, NULL,
            TRUE, current_recurring_group_id, db_frequency, occurrence_num,
            num_occurrences_to_generate_input)

\* positions counted from 0
InstallmentRow_zero_based(last_id, user_id, type, installment_amounts, installment_date, description, current_installment_group_id, installment_idx, num_installments) ==
    LET installment_num == installment_idx
    IN  Row(last_id + installment_idx + 1, user_id, type, installment_amounts[installment_idx + 1],
            Strftime(installment_date),
            InstallmentDescription(description, installment_num, num_installments),
            current_installment_group_id, installment_num, num_installments,
            FALSE, NULL, NULL_TEXT, NULL, NULL)

\* variant: the description is stored without the position
InstallmentRow_unnumbered(last_id, user_id, type, installment_amounts, installment_date, description, current_installment_group_id, installment_idx, num_installments) ==
    LET installment_num == installment_idx + 1
    IN  Row(last_id + installment_num, user_id, type, installment_amounts[installment_idx + 1],
            Strftime(installment_date), description,
            current_installment_group_id, installment_num, num_installments,
            FALSE, NULL, NULL_TEXT, NULL, NULL)

\* the row one pass of the installment loop inserts
InstallmentRow(last_id, user_id, type, installment_amounts, installment_date, description, current_installment_group_id, installment_idx, num_installments) ==
    LET installment_num == installment_idx + 1
    IN  Row(last_id + installment_num, user_id, type, installment_amounts[installment_idx + 1],
            Strftime(installment_date),
            InstallmentDescription(description, installment_num, num_installments),
            current_installment_group_id, installment_num, num_installments,
            FALSE, NULL, NULL_TEXT, NULL, NULL)

\* variant: the row is flagged as recurring
SimpleRow_flagged_recurring(last_id, user_id, type, total_amount, date_str, description) ==
    Row(last_id + 1, user_id, type, total_amount, date_str, description,
        NULL, NULL, NULL, TRUE, NULL, NULL_TEXT, NULL, NULL)

\* the row the simple branch inserts
SimpleRow(last_id, user_id, type, total_amount, date_str, description) ==
    Row(last_id + 1, user_id, type, total_amount, date_str, description,
        NULL, NULL, NULL, FALSE, NULL, NULL_TEXT, NULL, NULL)

(***************************************************************************)
(* add_transaction.  fail_at = k > 0: the k-th INSERT of the call raises.  *)
(* The result names how the call ended ("return" or "raise"), the list it  *)
(* returned, what went wrong ("none", "frequency", "date", "insert"), the  *)
(* table afterwards and the number of uuids generated.                     *)
(***************************************************************************)
add_transaction(table, last_id, uuid_count, user_id, type, total_amount, date_str, description, num_installments, is_recurring_input, recurrence_frequency_input, num_occurrences_to_generate_input, fail_at) ==
    LET conn == Connect(table)
        base_start_date == Strptime(date_str)
        \* conn.commit(); conn.close(); return created_transactions
        Finished(created, uuid_used) ==
            [end |-> "return", value |-> created, error |-> "none",
             uuids |-> uuid_count + uuid_used,
             table |-> Commit(Execute(conn, table \cup Range(created)))]
        \* conn.close(); return []  --  or the exception leaves the function
        Failed(created, how, error, uuid_used) ==
            [end |-> how, value |-> <<>>, error |-> error,
             uuids |-> uuid_count + uuid_used,
             table |-> Close(Execute(conn, table \cup Range(created)))]
        \* except ValueError: close and return []; any other exception propagates
        DateFailed(created, date) ==
            Failed(created, IF date.error = "ValueError" THEN "return" ELSE "raise", "date", 1)
    IN
    IF is_recurring_input /\ num_occurrences_to_generate_input > 0 THEN
        IF recurrence_frequency_input \notin DOMAIN FREQUENCY_MAPPING
        THEN Failed(<<>>, "return", "frequency", 0)
        ELSE
        LET db_frequency == FREQUENCY_MAPPING[recurrence_frequency_input]
            current_recurring_group_id == uuid4(uuid_count)
            amount_per_occurrence == total_amount
            RECURSIVE loop(_, _)
            loop(occurrence_idx, created) ==
                IF occurrence_idx = num_occurrences_to_generate_input THEN Finished(created, 1)
                ELSE
                LET occurrence_date == calculate_next_occurrence_date(base_start_date, db_frequency,
                                                                      occurrence_idx)
                IN  IF IsError(occurrence_date) THEN DateFailed(created, occurrence_date)
                    ELSE IF fail_at = occurrence_idx + 1 THEN Failed(created, "return", "insert", 1)
                    ELSE loop(occurrence_idx + 1,
                              Append(created,
                                     OccurrenceRow(last_id, user_id, type, amount_per_occurrence,
                                                   occurrence_date, description,
                                                   current_recurring_group_id, db_frequency,
                                                   occurrence_idx, num_occurrences_to_generate_input)))
        IN  loop(0, <<>>)
    ELSE IF num_installments > 1 /\ ~is_recurring_input THEN
        LET current_installment_group_id == uuid4(uuid_count)
            installment_amounts == calculate_installment_amounts(total_amount, num_installments)
            RECURSIVE loop(_, _)
            loop(installment_idx, created) ==
                IF installment_idx = num_installments THEN Finished(created, 1)
                ELSE
                LET installment_date == calculate_next_occurrence_date(base_start_date, "monthly",
                                                                       installment_idx)
                IN  IF IsError(installment_date) THEN DateFailed(created, installment_date)
                    ELSE IF fail_at = installment_idx + 1 THEN Failed(created, "return", "insert", 1)
                    ELSE loop(installment_idx + 1,
                              Append(created,
                                     InstallmentRow(last_id, user_id, type, installment_amounts,
                                                    installment_date, description,
                                                    current_installment_group_id, installment_idx,
                                                    num_installments)))
        IN  loop(0, <<>>)
    ELSE
        IF fail_at = 1 THEN Failed(<<>>, "return", "insert", 0)
        ELSE Finished(<<SimpleRow(last_id, user_id, type, total_amount, date_str, description)>>, 0)

(***************************************************************************)
(* update_transaction, delete_transaction.  fail: cursor.execute raises.   *)
(***************************************************************************)
\* variant: the UPDATE has no WHERE clause
update_transaction_without_where(table, transaction_id, type_val, amount_val, date_val, description_val, fail) ==
    LET conn == Connect(table)
        updated == {[r EXCEPT !.type = type_val, !.amount = amount_val,
                              !.date = date_val, !.description = description_val] : r \in table}
    IN  IF fail THEN [value |-> FALSE, error |-> "execute", table |-> Close(conn)]
        ELSE [value |-> table # {}, error |-> "none", table |-> Commit(Execute(conn, updated))]

update_transaction(table, transaction_id, type_val, amount_val, date_val, description_val, fail) ==
    LET conn == Connect(table)
        matched == {r \in table : r.id = transaction_id}
        updated == {IF r.id = transaction_id
                    THEN [r EXCEPT !.type = type_val, !.amount = amount_val,
                                   !.date = date_val, !.description = description_val]
                    ELSE r : r \in table}
    IN  IF fail THEN [value |-> FALSE, error |-> "execute", table |-> Close(conn)]
        ELSE [value |-> Cardinality(matched) > 0, error |-> "none", table |-> Commit(Execute(conn, updated))]

delete_transaction(table, transaction_id, fail) ==
    LET conn == Connect(table)
        matched == {r \in table : r.id = transaction_id}
    IN  IF fail THEN [value |-> FALSE, error |-> "execute", table |-> Close(conn)]
        ELSE [value |-> Cardinality(matched) > 0, error |-> "none", table |-> Commit(Execute(conn, table \ matched))]

(***************************************************************************)
(* Group operations.  A result is the pair (success, count).               *)
(***************************************************************************)
allowed_fields == {"installment_group_id", "recurring_group_id"}

\* variant: the identifier is looked up in both group columns
InGroup_any_column(table, group_id, group_field_name) ==
    {r \in table : r.installment_group_id = group_id \/ r.recurring_group_id = group_id}

\* SELECT ... WHERE <group_field_name> = ?   (NULL never equals a parameter)
InGroup(table, group_id, group_field_name) ==
    IF group_field_name = "installment_group_id"
    THEN {r \in table : r.installment_group_id # NULL /\ r.installment_group_id = group_id}
    ELSE {r \in table : r.recurring_group_id # NULL /\ r.recurring_group_id = group_id}

\* variant: a DELETE that matches no row is reported as a failure
delete_transaction_group_expecting_rows(table, group_id, group_field_name, fail) ==
    LET conn == Connect(table)
        matched == InGroup(table, group_id, group_field_name)
    IN  IF group_field_name \notin allowed_fields
        THEN [value |-> <<FALSE, 0>>, error |-> "field", table |-> table]
        ELSE IF fail \/ matched = {} THEN [value |-> <<FALSE, 0>>, error |-> "execute", table |-> Close(conn)]
        ELSE [value |-> <<TRUE, Cardinality(matched)>>, error |-> "none", table |-> Commit(Execute(conn, table \ matched))]

delete_transaction_group(table, group_id, group_field_name, fail) ==
    LET conn == Connect(table)
        matched == InGroup(table, group_id, group_field_name)
    IN  IF group_field_name \notin allowed_fields
        THEN [value |-> <<FALSE, 0>>, error |-> "field", table |-> table]
        ELSE IF fail THEN [value |-> <<FALSE, 0>>, error |-> "execute", table |-> Close(conn)]
        ELSE [value |-> <<TRUE, Cardinality(matched)>>, error |-> "none", table |-> Commit(Execute(conn, table \ matched))]

\* fail_at = k > 0: the k-th UPDATE of the loop raises
update_group_base_description(table, group_id, group_field_name, new_base_description, fail_at) ==
    LET conn == Connect(table)
        transactions_in_group == ById(InGroup(table, group_id, group_field_name))
        num(r) == IF group_field_name = "installment_group_id"
                  THEN r.installment_number ELSE r.occurrence_number
        total(r) == IF group_field_name = "installment_group_id"
                    THEN r.total_installments ELSE r.total_occurrences_in_group
        reconstructed_description(r) ==
            IF num(r) # NULL /\ total(r) # NULL
            THEN InstallmentDescription(Strip(new_base_description), num(r), total(r))
            ELSE Strip(new_base_description)
        RECURSIVE loop(_, _, _)
        loop(k, c, updated_count) ==
            IF k > Len(transactions_in_group)
            THEN [value |-> <<TRUE, updated_count>>, error |-> "none", table |-> Commit(c)]
            ELSE IF fail_at = k
            THEN [value |-> <<FALSE, 0>>, error |-> "execute", table |-> Rollback(c)]
            ELSE LET t_id == transactions_in_group[k].id
                     hit == {r \in c.pending : r.id = t_id}
                 IN  loop(k + 1,
                          Execute(c, {IF r.id = t_id
                                      THEN [r EXCEPT !.description = reconstructed_description(transactions_in_group[k])]
                                      ELSE r : r \in c.pending}),
                          updated_count + Cardinality(hit))
    IN  IF group_field_name \notin allowed_fields
        THEN [value |-> <<FALSE, 0>>, error |-> "field", table |-> table]
        ELSE loop(1, conn, 0)

\* variant: WHERE date >= ?, whatever the group
update_recurring_group_future_amounts_of_all_rows(table, recurring_group_id, from_date_str, new_amount, fail) ==
    LET conn == Connect(table)
        matched == {r \in table : TextGE(r.date, from_date_str)}
        updated == {IF r \in matched THEN [r EXCEPT !.amount = new_amount] ELSE r : r \in table}
    IN  IF fail THEN [value |-> FALSE, error |-> "execute", table |-> Close(conn)]
        ELSE [value |-> <<TRUE, Cardinality(matched)>>, error |-> "none", table |-> Commit(Execute(conn, updated))]

\* variant: WHERE (recurring_group_id = ? OR installment_group_id = ?) AND date >= ?
update_recurring_group_future_amounts_any_group(table, recurring_group_id, from_date_str, new_amount, fail) ==
    LET conn == Connect(table)
        matched == {r \in table : /\ \/ r.recurring_group_id = recurring_group_id
                                     \/ r.installment_group_id = recurring_group_id
                                  /\ TextGE(r.date, from_date_str)}
        updated == {IF r \in matched THEN [r EXCEPT !.amount = new_amount] ELSE r : r \in table}
    IN  IF fail THEN [value |-> <<FALSE, 0>>, error |-> "execute", table |-> Close(conn)]
        ELSE [value |-> <<TRUE, Cardinality(matched)>>, error |-> "none", table |-> Commit(Execute(conn, updated))]

update_recurring_group_future_amounts(table, recurring_group_id, from_date_str, new_amount, fail) ==
    LET conn == Connect(table)
        matched == {r \in table : /\ r.recurring_group_id # NULL
                                  /\ r.recurring_group_id = recurring_group_id
                                  /\ TextGE(r.date, from_date_str)}
        updated == {IF r \in matched THEN [r EXCEPT !.amount = new_amount] ELSE r : r \in table}
    IN  IF fail THEN [value |-> <<FALSE, 0>>, error |-> "execute", table |-> Close(conn)]
        ELSE [value |-> <<TRUE, Cardinality(matched)>>, error |-> "none", table |-> Commit(Execute(conn, updated))]

(***************************************************************************)
(* EditTransactionDialog (src/app/ui.py), opened on one row of the table.  *)
(***************************************************************************)
\* bool(x) for a column that holds None, a number or a uuid
Truthy(x) == x # NULL /\ x # 0

IsDigit(c) == \E i \in 1..10 : Digits[i] = c

RECURSIVE DigitsBefore(_, _)
\* how many digits end at position k of s
DigitsBefore(s, k) == IF k >= 1 /\ IsDigit(s[k]) THEN 1 + DigitsBefore(s, k - 1) ELSE 0

\* re.match(r"^(.*?)\s*\(\d+/\d+\)$", description): whether it matched, and group(1)
MatchPositionSuffix(description) ==
    LET n == Len(description)
        d2 == DigitsBefore(description, n - 1)
        slash == n - 1 - d2
        d1 == DigitsBefore(description, slash - 1)
        open == slash - 1 - d1
    IN  IF /\ n >= 1
           /\ description[n] = ")"
           /\ d2 >= 1
           /\ slash >= 1
           /\ description[slash] = "/"
           /\ d1 >= 1
           /\ open >= 1
           /\ description[open] = "("
        THEN [matched |-> TRUE, group1 |-> RStrip(SubSeq(description, 1, open - 1))]
        ELSE [matched |-> FALSE, group1 |-> <<>>]

\* __init__: the text the description field is filled with
base_description_for_edit(transaction) ==
    LET is_part_of_group == Truthy(transaction.installment_group_id) \/ Truthy(transaction.recurring_group_id)
        match == MatchPositionSuffix(transaction.description)
    IN  IF is_part_of_group /\ match.matched THEN Strip(match.group1) ELSE transaction.description

\* __init__: f"{self.transaction.amount:.2f}" read back as a number
amount_for_edit(transaction) == FromCents(RoundCents(transaction.amount))

\* validate_and_accept.  The dialog holds the row as it was when it was
\* opened; amount, date and description are what the fields hold when Save is
\* pressed.  fail_update, fail_rename_at, fail_reprice: the storage failure met
\* by each of the three database calls.
validate_and_accept(table, transaction, transaction_type, amount, date_str_db, description_text, apply_desc_to_group, apply_amount_to_future, fail_update, fail_rename_at, fail_reprice) ==
    LET description_to_save == Strip(description_text)
        is_part_of_group == Truthy(transaction.installment_group_id) \/ Truthy(transaction.recurring_group_id)
        is_recurring_item == Truthy(transaction.recurring_group_id)
        final_description_for_current_item ==
            IF /\ Truthy(transaction.installment_group_id)
               /\ Truthy(transaction.installment_number)
               /\ Truthy(transaction.total_installments)
            THEN InstallmentDescription(description_to_save, transaction.installment_number,
                                        transaction.total_installments)
            ELSE IF /\ Truthy(transaction.recurring_group_id)
                    /\ Truthy(transaction.occurrence_number)
                    /\ Truthy(transaction.total_occurrences_in_group)
            THEN InstallmentDescription(description_to_save, transaction.occurrence_number,
                                        transaction.total_occurrences_in_group)
            ELSE description_to_save
        individual == update_transaction(table, transaction.id, transaction_type, amount,
                                         date_str_db, final_description_for_current_item, fail_update)
        group_id == IF Truthy(transaction.installment_group_id)
                    THEN transaction.installment_group_id ELSE transaction.recurring_group_id
        group_field == IF Truthy(transaction.installment_group_id)
                       THEN "installment_group_id" ELSE "recurring_group_id"
        skipped(t) == [value |-> <<TRUE, 0>>, error |-> "none", table |-> t]
        described == IF is_part_of_group /\ apply_desc_to_group
                     THEN update_group_base_description(individual.table, group_id, group_field,
                                                        description_to_save, fail_rename_at)
                     ELSE skipped(individual.table)
        repriced == IF is_recurring_item /\ apply_amount_to_future
                    THEN update_recurring_group_future_amounts(described.table,
                                                               transaction.recurring_group_id,
                                                               transaction.date, amount, fail_reprice)
                    ELSE skipped(described.table)
    IN  IF amount <= 0 THEN [value |-> FALSE, error |-> "amount", table |-> table]
        ELSE IF description_to_save = <<>> THEN [value |-> FALSE, error |-> "description", table |-> table]
        ELSE IF ~individual.value THEN [value |-> FALSE, error |-> "update", table |-> individual.table]
        ELSE [value |-> TRUE,
              error |-> IF ~described.value[1] THEN "rename"
                        ELSE IF ~repriced.value[1] THEN "reprice" ELSE "none",
              table |-> repriced.table]

(***************************************************************************)
(* State machine: one action per call of the module's API.                 *)
(*   transactions    the committed table                                   *)
(*   seq             last id handed out by AUTOINCREMENT                   *)
(*   uuids           number of uuid4 values generated so far               *)
(*   ret             the last call: name, arguments, how it ended, result  *)
(*   before          the table as it was when the last call started        *)
(*   calls           number of calls made                                  *)
(*   single_deleted  groups that lost a member to delete_transaction       *)
(*   previous        the call made before the last one, kept when it was a *)
(*                   group delete                                          *)
(***************************************************************************)
Users == {1, 2}

Types == {"receita", "despesa"}

\* the three keys of FREQUENCY_MAPPING and a value that is not a key
Frequencies == {"mensal", "semanal", "anual", "monthly"}

Fields == allowed_fields \cup {"id"}

\* generated uuids
GroupIds == 1..uuids

\* assigned row ids, and one not assigned yet
RowIds == 1..(seq + 1)

NoCall == [op |-> "none", args |-> <<>>, end |-> "return", value |-> <<>>, error |-> "none"]

Init ==
    /\ transactions = {}
    /\ seq = 0
    /\ uuids = 0
    /\ ret = NoCall
    /\ before = {}
    /\ calls = 0
    /\ single_deleted = {}
    /\ previous = NoCall

\* the table, the AUTOINCREMENT sequence and the call counter after a call
Called(table) ==
    /\ calls' = calls + 1
    /\ before' = transactions
    /\ transactions' = table
    /\ seq' = seq + Cardinality({r \in table : r.id > seq})
    /\ previous' = IF ret.op = "delete_transaction_group" THEN ret ELSE NoCall

AddCall(user_id, type, total_amount, date, description, num_installments, is_recurring_input, recurrence_frequency_input, num_occurrences_to_generate_input, fail_at) ==
    LET out == add_transaction(transactions, seq, uuids, user_id, type, total_amount, Strftime(date),
                               description, num_installments, is_recurring_input,
                               recurrence_frequency_input, num_occurrences_to_generate_input, fail_at)
    IN  /\ Cardinality(out.table) <= MaxRows
        /\ Called(out.table)
        /\ uuids' = out.uuids
        /\ ret' = [op |-> "add_transaction",
                   args |-> [user_id |-> user_id, type |-> type, total_amount |-> total_amount,
                             date_str |-> Strftime(date), description |-> description,
                             num_installments |-> num_installments,
                             is_recurring_input |-> is_recurring_input,
                             recurrence_frequency_input |-> recurrence_frequency_input,
                             num_occurrences_to_generate_input |-> num_occurrences_to_generate_input,
                             fail_at |-> fail_at],
                   end |-> out.end, value |-> out.value, error |-> out.error]
        /\ UNCHANGED single_deleted

\* add_transaction(user_id, type, total_amount, date_str, description)
AddSimpleOf(U, T, A, D, S, F) ==
    \E user_id \in U, type \in T, total_amount \in A, date \in D, description \in S, fail_at \in F :
        /\ fail_at <= 1
        /\ AddCall(user_id, type, total_amount, date, description, 1, FALSE, NULL_TEXT, 0, fail_at)

\* add_transaction(..., num_installments = n), with or without a
\* recurrence_frequency_input (None by default)
AddInstallmentsOf(U, T, A, D, S, Q, F) ==
    \E user_id \in U, type \in T, total_amount \in A, date \in D, description \in S,
       n \in 2..MaxInstallments, f \in Q, fail_at \in F :
        /\ fail_at <= n
        /\ AddCall(user_id, type, total_amount, date, description, n, FALSE, f, 0, fail_at)

\* add_transaction(..., num_installments = i, is_recurring_input = True,
\*                 recurrence_frequency_input = f, num_occurrences_to_generate_input = n)
AddRecurringOf(U, T, A, D, S, I, Q, N, F) ==
    \E user_id \in U, type \in T, total_amount \in A, date \in D, description \in S,
       i \in I, f \in Q, n \in N, fail_at \in F :
        /\ fail_at <= n
        /\ AddCall(user_id, type, total_amount, date, description, i, TRUE, f, n, fail_at)

UpdateTransactionOf(T, A, D, S, F) ==
    \E transaction_id \in RowIds, type \in T, amount \in A, date \in D, description \in S, fail \in F :
        LET out == update_transaction(transactions, transaction_id, type, amount, Strftime(date),
                                      description, fail)
        IN  /\ Called(out.table)
            /\ ret' = [op |-> "update_transaction",
                       args |-> [transaction_id |-> transaction_id, type_val |-> type,
                                 amount_val |-> amount, date_val |-> Strftime(date),
                                 description_val |-> description, fail |-> fail],
                       end |-> "return", value |-> out.value, error |-> out.error]
            /\ UNCHANGED <<uuids, single_deleted>>

\* the groups the row with this id belongs to
GroupsOf(table, transaction_id) ==
    {<<"installment_group_id", r.installment_group_id>> :
        r \in {q \in table : q.id = transaction_id /\ q.installment_group_id # NULL}}
    \cup
    {<<"recurring_group_id", r.recurring_group_id>> :
        r \in {q \in table : q.id = transaction_id /\ q.recurring_group_id # NULL}}

DeleteTransactionOf(F) ==
    \E transaction_id \in RowIds, fail \in F :
        LET out == delete_transaction(transactions, transaction_id, fail)
        IN  /\ Called(out.table)
            /\ ret' = [op |-> "delete_transaction",
                       args |-> [transaction_id |-> transaction_id, fail |-> fail],
                       end |-> "return", value |-> out.value, error |-> out.error]
            /\ single_deleted' = IF out.value
                                 THEN single_deleted \cup GroupsOf(transactions, transaction_id)
                                 ELSE single_deleted
            /\ UNCHANGED uuids

DeleteTransactionGroupOf(G, F) ==
    \E group_id \in GroupIds, group_field_name \in G, fail \in F :
        LET out == delete_transaction_group(transactions, group_id, group_field_name, fail)
        IN  /\ Called(out.table)
            /\ ret' = [op |-> "delete_transaction_group",
                       args |-> [group_id |-> group_id, group_field_name |-> group_field_name,
                                 fail |-> fail],
                       end |-> "return", value |-> out.value, error |-> out.error]
            /\ UNCHANGED <<uuids, single_deleted>>

UpdateGroupBaseDescriptionOf(G, S, F) ==
    \E group_id \in GroupIds, group_field_name \in G, new_base_description \in S, fail_at \in F :
        LET out == update_group_base_description(transactions, group_id, group_field_name,
                                                 new_base_description, fail_at)
        IN  /\ fail_at <= Cardinality(InGroup(transactions, group_id, group_field_name))
            /\ Called(out.table)
            /\ ret' = [op |-> "update_group_base_description",
                       args |-> [group_id |-> group_id, group_field_name |-> group_field_name,
                                 new_base_description |-> new_base_description, fail_at |-> fail_at],
                       end |-> "return", value |-> out.value, error |-> out.error]
            /\ UNCHANGED <<uuids, single_deleted>>

UpdateRecurringGroupFutureAmountsOf(D, A, F) ==
    \E recurring_group_id \in GroupIds, from_date_str \in D, new_amount \in A, fail \in F :
        LET out == update_recurring_group_future_amounts(transactions, recurring_group_id,
                                                         from_date_str, new_amount, fail)
        IN  /\ Called(out.table)
            /\ ret' = [op |-> "update_recurring_group_future_amounts",
                       args |-> [recurring_group_id |-> recurring_group_id,
                                 from_date_str |-> from_date_str, new_amount |-> new_amount,
                                 fail |-> fail],
                       end |-> "return", value |-> out.value, error |-> out.error]
            /\ UNCHANGED <<uuids, single_deleted>>

\* the dialog is opened on a row and saved.  The user leaves a field as it was
\* filled or types one of the other values, changes the description or the
\* amount and date but not both, and ticks a group option only for a field
\* they changed.
EditTransactionDialogOf(A, D, S, F) ==
    \E transaction \in transactions :
    \E amount \in A \cup {amount_for_edit(transaction)},
       date \in D \cup {Strptime(transaction.date)},
       description_text \in S \cup {base_description_for_edit(transaction)},
       apply_desc_to_group \in BOOLEAN, apply_amount_to_future \in BOOLEAN,
       fail_rename_at \in F :
        LET description_changed == description_text # base_description_for_edit(transaction)
            amount_changed == amount # amount_for_edit(transaction)
            date_changed == Strftime(date) # transaction.date
            out == validate_and_accept(transactions, transaction, transaction.type, amount,
                                       Strftime(date), description_text, apply_desc_to_group,
                                       apply_amount_to_future, FALSE, fail_rename_at, FALSE)
        IN  /\ description_changed => ~amount_changed /\ ~date_changed
            /\ apply_desc_to_group => description_changed
            /\ apply_amount_to_future => amount_changed /\ Truthy(transaction.recurring_group_id)
            /\ fail_rename_at # 0 => apply_desc_to_group
            /\ Called(out.table)
            /\ ret' = [op |-> "EditTransactionDialog",
                       args |-> [transaction |-> transaction, transaction_type |-> transaction.type,
                                 amount |-> amount, date_str_db |-> Strftime(date),
                                 description_text |-> description_text,
                                 apply_desc_to_group |-> apply_desc_to_group,
                                 apply_amount_to_future |-> apply_amount_to_future,
                                 fail_rename_at |-> fail_rename_at],
                       end |-> "return", value |-> out.value, error |-> out.error]
            /\ UNCHANGED <<uuids, single_deleted>>

(***************************************************************************)
(* Spec: sequences of up to MaxCalls calls.                                *)
(***************************************************************************)
\* 2 cents (0.02)
SomeAmounts == {20}

\* zero and 0.03
OtherAmounts == {0, 30}

SomeDates == {Date(2024, 1, 31)}

OtherDates == {Date(2024, 2, 10)}

SomeDescriptions == {<<"A">>}

OtherDescriptions == {<<" ", "B">>}

\* the dates of the rows
RowDates == {r.date : r \in transactions}

AddSimple ==
    /\ calls < MaxCalls
    /\ AddSimpleOf(Users, {"despesa"}, SomeAmounts, SomeDates, SomeDescriptions, {0})

AddInstallments ==
    /\ calls < MaxCalls
    /\ AddInstallmentsOf({1}, {"despesa"}, SomeAmounts, SomeDates, SomeDescriptions, {NULL_TEXT}, {0})

AddRecurring ==
    /\ calls < MaxCalls
    /\ AddRecurringOf({1}, {"receita"}, SomeAmounts, SomeDates, SomeDescriptions,
                      {1, 2}, {"semanal"}, 2..MaxOccurrences, {0})

UpdateTransaction ==
    /\ calls < MaxCalls
    /\ UpdateTransactionOf(Types, OtherAmounts, OtherDates, OtherDescriptions, {FALSE})

DeleteTransaction ==
    /\ calls < MaxCalls
    /\ DeleteTransactionOf(BOOLEAN)

DeleteTransactionGroup ==
    /\ calls < MaxCalls
    /\ DeleteTransactionGroupOf(Fields, BOOLEAN)

UpdateGroupBaseDescription ==
    /\ calls < MaxCalls
    /\ UpdateGroupBaseDescriptionOf(Fields, SomeDescriptions \cup OtherDescriptions,
                                    0..MaxOccurrences)

UpdateRecurringGroupFutureAmounts ==
    /\ calls < MaxCalls
    /\ UpdateRecurringGroupFutureAmountsOf(RowDates, OtherAmounts, BOOLEAN)

Next ==
    \/ AddSimple
    \/ AddInstallments
    \/ AddRecurring
    \/ UpdateTransaction
    \/ DeleteTransaction
    \/ DeleteTransactionGroup
    \/ UpdateGroupBaseDescription
    \/ UpdateRecurringGroupFutureAmounts

Spec == Init /\ [][Next]_vars

(***************************************************************************)
(* SpecCreate: one creation call on the empty table, over wider inputs.    *)
(***************************************************************************)
\* negative, zero, 0.004, 0.005, 0.015, 0.02, 0.025, 0.03, 0.07 and 100.00
ManyAmounts == {-10, 0, 4, 5, 15, 20, 25, 30, 70, 100000}

ManyDates == {Date(2023, 1, 31), Date(2023, 12, 25), Date(2024, 1, 31), Date(2024, 2, 29),
              Date(9999, 12, 25)}

\* "A", " B", "" and " "
ManyDescriptions == {<<"A">>, <<" ", "B">>, <<>>, <<" ">>}

CreateSimple ==
    /\ calls = 0
    /\ AddSimpleOf(Users, Types, ManyAmounts, ManyDates, ManyDescriptions, 0..1)

CreateInstallments ==
    /\ calls = 0
    /\ AddInstallmentsOf(Users, Types, ManyAmounts, ManyDates, ManyDescriptions,
                         {NULL_TEXT, "semanal"}, 0..MaxInstallments)

CreateRecurring ==
    /\ calls = 0
    /\ AddRecurringOf(Users, Types, ManyAmounts, ManyDates, ManyDescriptions,
                      1..2, Frequencies, 0..MaxOccurrences, 0..MaxOccurrences)

NextCreate ==
    \/ CreateSimple
    \/ CreateInstallments
    \/ CreateRecurring

SpecCreate == Init /\ [][NextCreate]_vars

(***************************************************************************)
(* SpecDates: one call of _calculate_next_occurrence_date.                 *)
(***************************************************************************)
\* a common year, a leap year, the leap year before a common century year and
\* the year before the last one of the calendar
StartYears == {2023, 2024, 2096, 9998}

\* the first day and the last days of every month of those years
StartDates ==
    {dt \in {Date(y, m, d) : y \in StartYears, m \in 1..12, d \in {1, 28, 29, 30, 31}} :
        dt.day <= DaysInMonth(dt.year, dt.month)}

\* the three frequencies the function knows and one it does not
DbFrequencies == {"monthly", "weekly", "yearly", "mensal"}

CalculateNextOccurrenceDate ==
    /\ calls = 0
    /\ \E start_date \in StartDates, frequency \in DbFrequencies, occurrence_index \in 0..MaxIndex :
          LET out == calculate_next_occurrence_date(start_date, frequency, occurrence_index)
          IN  ret' = [op |-> "calculate_next_occurrence_date",
                      args |-> [start_date |-> start_date, frequency |-> frequency,
                                occurrence_index |-> occurrence_index],
                      end |-> IF IsError(out) THEN "raise" ELSE "return",
                      value |-> out,
                      error |-> IF IsError(out) THEN "date" ELSE "none"]
    /\ calls' = calls + 1
    /\ UNCHANGED <<transactions, seq, uuids, before, single_deleted, previous>>

NextDates == CalculateNextOccurrenceDate

SpecDates == Init /\ [][NextDates]_vars

(***************************************************************************)
(* SpecEdit: one group is created, then the edit dialog is opened and      *)
(* saved up to MaxCalls - 1 times.                                         *)
(***************************************************************************)
CreateGroup ==
    /\ calls = 0
    /\ \/ AddInstallments
       \/ AddRecurring

EditTransactionDialog ==
    /\ calls >= 1
    /\ calls < MaxCalls
    /\ EditTransactionDialogOf({30}, OtherDates, OtherDescriptions, 0..1)

NextEdit ==
    \/ CreateGroup
    \/ EditTransactionDialog

SpecEdit == Init /\ [][NextEdit]_vars

(***************************************************************************)
(* Properties.                                                             *)
(***************************************************************************)
\* the rows the last call added to the table
Inserted == transactions \ before

RECURSIVE SumAmount(_)
SumAmount(rows) ==
    IF rows = {} THEN 0
    ELSE LET r == CHOOSE q \in rows : TRUE IN r.amount + SumAmount(rows \ {r})

\* the last call was add_transaction in installment mode and it returned rows
InstallmentsCreated ==
    /\ ret.op = "add_transaction"
    /\ ret.args.num_installments > 1
    /\ ~ret.args.is_recurring_input
    /\ ret.value # <<>>

\* C1: an installment creation with a positive total persists N rows whose
\* amounts are whole cents, sum to the requested total in cents (the total
\* itself when it is a whole number of cents, else the nearest cent) and
\* differ from one another by at most one cent.
C1_InstallmentsSumToTotal ==
    (InstallmentsCreated /\ ret.args.total_amount > 0) =>
        /\ Cardinality(Inserted) = ret.args.num_installments
        /\ \A r \in Inserted : r.amount % 10 = 0
        /\ ret.args.total_amount % 10 = 0 => SumAmount(Inserted) = ret.args.total_amount
        /\ SumAmount(Inserted) - ret.args.total_amount <= 5
        /\ ret.args.total_amount - SumAmount(Inserted) <= 5
        /\ \A r, q \in Inserted : r.amount - q.amount <= 10

\* 100.00 in three parts: the total does not divide evenly
C1_Witness ==
    /\ InstallmentsCreated
    /\ ret.args.total_amount = 100000
    /\ ret.args.num_installments = 3
    /\ \E r, q \in Inserted : r.amount # q.amount

\* C2 (as claimed): after a creation request with a positive amount no
\* created row has a zero or negative amount.
C2_CreatedAmountsPositive ==
    (ret.op = "add_transaction" /\ ret.args.total_amount > 0) =>
        \A r \in Inserted : r.amount > 0

\* the groups present in a table, as <<column, identifier>>
GroupsIn(table) ==
    {<<"installment_group_id", r.installment_group_id>> :
        r \in {q \in table : q.installment_group_id # NULL}}
    \cup
    {<<"recurring_group_id", r.recurring_group_id>> :
        r \in {q \in table : q.recurring_group_id # NULL}}

Members(g) == {r \in transactions : r[g[1]] = g[2]}

Position(g, r) == IF g[1] = "installment_group_id" THEN r.installment_number ELSE r.occurrence_number

Count(g, r) == IF g[1] = "installment_group_id" THEN r.total_installments ELSE r.total_occurrences_in_group

SameCount(g) == \A r, q \in Members(g) : Count(g, r) = Count(g, q)

DistinctPositions(g) ==
    /\ \A r \in Members(g) : Position(g, r) \in 1..Count(g, r)
    /\ \A r, q \in Members(g) : Position(g, r) = Position(g, q) => r = q

AllPositions(g) == \A r \in Members(g) : {Position(g, q) : q \in Members(g)} = 1..Count(g, r)

\* C3 (as claimed): in every reachable state the rows of a group carry one
\* count and their positions are a permutation of 1..count.
C3_PositionsArePermutation ==
    \A g \in GroupsIn(transactions) : SameCount(g) /\ DistinctPositions(g) /\ AllPositions(g)

\* C3 (amended): the rows of a group carry one count and distinct positions
\* within 1..count; the positions are all of 1..count as long as no member
\* of the group has been removed by delete_transaction.
C3_PositionsDistinctAndCompleteUnlessSingleDeleted ==
    \A g \in GroupsIn(transactions) :
        /\ SameCount(g)
        /\ DistinctPositions(g)
        /\ g \notin single_deleted => AllPositions(g)

\* a group that lost a member to delete_transaction, then took another call
C3_Witness ==
    /\ ret.op # "delete_transaction"
    /\ \E g \in GroupsIn(transactions) : g \in single_deleted /\ ~AllPositions(g)
    /\ \E g \in GroupsIn(transactions) : g \notin single_deleted

\* C4: no row has both installment_group_id and recurring_group_id set.
C4_AtMostOneGroup ==
    \A r \in transactions : ~(r.installment_group_id # NULL /\ r.recurring_group_id # NULL)

\* rows of both kinds of group are present after a single-row update of a grouped row
C4_Witness ==
    /\ ret.op = "update_transaction"
    /\ ret.value = TRUE
    /\ \E r \in transactions : r.installment_group_id # NULL /\ r.id = ret.args.transaction_id
    /\ \E r \in transactions : r.recurring_group_id # NULL

\* C5 (as claimed): when an insert or a date computation of a group creation
\* fails, add_transaction returns the empty list and the table is as before.
C5_FailedCreationReturnsEmptyAndPersistsNothing ==
    (ret.op = "add_transaction" /\ ret.error \in {"insert", "date"}) =>
        /\ ret.end = "return"
        /\ ret.value = <<>>
        /\ transactions = before

\* C6 (as claimed): a call that asks for installments and for recurrence at
\* once fails and persists nothing.
C6_ConflictingModeRejected ==
    (/\ ret.op = "add_transaction"
     /\ ret.args.num_installments > 1
     /\ ret.args.is_recurring_input
     /\ ret.args.num_occurrences_to_generate_input > 0) =>
        /\ ret.value = <<>>
        /\ transactions = before

\* the last call was a group rename that reported success
Renamed == ret.op = "update_group_base_description" /\ ret.value[1]

RenamedGroup == <<ret.args.group_field_name, ret.args.group_id>>

Suffix(g, r) == <<" ", "(">> \o Str(Position(g, r)) \o <<"/">> \o Str(Count(g, r)) \o <<")">>

\* C7 (as claimed): a successful rename sets every member's label to
\* new_base + " (position/count)" and returns the number of members.
C7_RenameSetsBasePlusSuffix ==
    Renamed =>
        /\ \A r \in Members(RenamedGroup) :
              r.description = ret.args.new_base_description \o Suffix(RenamedGroup, r)
        /\ ret.value[2] = Cardinality(Members(RenamedGroup))

\* C7 (amended): a successful rename sets every member's label to new_base
\* with leading and trailing blanks removed + " (position/count)", from the
\* member's own stored position and count, and returns the number of members
\* (0 for a group without members).
C7_RenameSetsStrippedBasePlusSuffix ==
    Renamed =>
        /\ \A r \in Members(RenamedGroup) :
              r.description = Strip(ret.args.new_base_description) \o Suffix(RenamedGroup, r)
        /\ ret.value[2] = Cardinality(Members(RenamedGroup))
        /\ ret.value[2] = Cardinality({r \in before : r[RenamedGroup[1]] = RenamedGroup[2]})

\* a recurring group of three renamed to a base that differs from the old one
C7_Witness ==
    /\ Renamed
    /\ ret.args.group_field_name = "recurring_group_id"
    /\ ret.value[2] = 3
    /\ \A r \in Members(RenamedGroup) : r \notin before

\* C8: a rename in which an UPDATE fails reports failure and leaves every
\* row, hence every label of the group, as it was before the call.
C8_FailedRenameChangesNothing ==
    (ret.op = "update_group_base_description" /\ ret.error = "execute") =>
        /\ ret.value = <<FALSE, 0>>
        /\ transactions = before

\* the second UPDATE of a rename failed, after the first had changed a label
C8_Witness ==
    /\ ret.op = "update_group_base_description"
    /\ ret.error = "execute"
    /\ ret.args.fail_at = 2
    /\ \E r \in before : r[RenamedGroup[1]] = RenamedGroup[2]
                         /\ r.description # Strip(ret.args.new_base_description) \o Suffix(RenamedGroup, r)

\* the calendar day a stored date names, as one number
DayNumber(text) == LET d == Strptime(text) IN d.year * 10000 + d.month * 100 + d.day

\* the last call was a reprice that reported success
Repriced == ret.op = "update_recurring_group_future_amounts" /\ ret.value[1]

\* the rows a reprice is to change: members of the group dated from_date or later
Due == {r \in before : /\ r.recurring_group_id = ret.args.recurring_group_id
                       /\ DayNumber(r.date) >= DayNumber(ret.args.from_date_str)}

\* C9: a successful reprice sets the amount of exactly the members of the
\* group dated on or after from_date, leaves every other row as it was, and
\* returns the number of rows it changed.
C9_RepriceFromDate ==
    Repriced =>
        /\ transactions = {IF r \in Due THEN [r EXCEPT !.amount = ret.args.new_amount] ELSE r : r \in before}
        /\ ret.value[2] = Cardinality(Due)

\* some members of the group are dated before from_date and some are not
C9_Witness ==
    /\ Repriced
    /\ ret.value[2] = 2
    /\ \E r \in before : /\ r.recurring_group_id = ret.args.recurring_group_id
                         /\ r \notin Due
                         /\ r \in transactions
    /\ \E r \in Due : r.amount # ret.args.new_amount

\* C10 (as claimed): a reprice to a zero or negative amount does not succeed
\* and leaves every amount as it was.
C10_NonPositiveRepriceRejected ==
    (ret.op = "update_recurring_group_future_amounts" /\ ret.args.new_amount <= 0) =>
        /\ ~ret.value[1]
        /\ transactions = before

\* the installment groups of a table
InstallmentGroupIds(table) == {r.installment_group_id : r \in table} \ {NULL}

\* C11: update_recurring_group_future_amounts called with the identifier of
\* an installment group changes nothing: the count it returns is 0 and every
\* row is as it was.
C11_RepriceOfInstallmentGroupIsNoOp ==
    (/\ ret.op = "update_recurring_group_future_amounts"
     /\ ret.args.recurring_group_id \in InstallmentGroupIds(before))
    => /\ ret.value[2] = 0
       /\ transactions = before

\* the call succeeded on an installment group that has a row on or after the
\* date, with an amount other than the new one
C11_Witness ==
    /\ ret.op = "update_recurring_group_future_amounts"
    /\ ret.value = <<TRUE, 0>>
    /\ \E r \in before : /\ r.installment_group_id = ret.args.recurring_group_id
                         /\ DayNumber(r.date) >= DayNumber(ret.args.from_date_str)
                         /\ r.amount # ret.args.new_amount

\* the last call was a group delete that reported success
GroupDeleted == ret.op = "delete_transaction_group" /\ ret.value[1]

\* the rows whose named group column held the identifier when the call started
Targeted == {r \in before : r[ret.args.group_field_name] = ret.args.group_id}

\* C12: a successful delete_transaction_group(group, field) removes every row
\* whose column `field` equals `group` and no other row (rows of other groups,
\* of a group of the other kind and ungrouped rows stay as they were), and
\* returns the number of rows removed; a call that reports failure removes
\* nothing.
C12_GroupDeleteRemovesExactlyTheGroup ==
    /\ GroupDeleted => /\ transactions = before \ Targeted
                       /\ ret.value[2] = Cardinality(Targeted)
    /\ (ret.op = "delete_transaction_group" /\ ~ret.value[1])
       => /\ transactions = before
          /\ ret.value[2] = 0

\* a group of two or more rows was removed while rows of another group stay
C12_Witness ==
    /\ GroupDeleted
    /\ Cardinality(Targeted) >= 2
    /\ transactions # {}
    /\ \E r \in transactions : r.installment_group_id # NULL \/ r.recurring_group_id # NULL

\* the last two calls were group deletes of the same group through the same
\* column, the first one successful and the second one met no storage error
DeletedTwice ==
    /\ previous.op = "delete_transaction_group"
    /\ previous.value[1]
    /\ ret.op = "delete_transaction_group"
    /\ ret.args.group_id = previous.args.group_id
    /\ ret.args.group_field_name = previous.args.group_field_name
    /\ ~ret.args.fail

\* C13: delete_transaction_group is idempotent: repeated right after a
\* successful call with the same identifier and column, it returns success
\* with count 0 and leaves the table unchanged.
C13_GroupDeleteIsIdempotent ==
    DeletedTwice => /\ ret.value = <<TRUE, 0>>
                    /\ transactions = before

\* the first of the two calls removed the rows of a group
C13_Witness ==
    /\ DeletedTwice
    /\ previous.value[2] >= 2
    /\ ret.value[1]

\* the last call asked for a simple transaction and no INSERT failed
SimpleCreated ==
    /\ ret.op = "add_transaction"
    /\ ret.args.num_installments = 1
    /\ ~ret.args.is_recurring_input
    /\ ret.args.fail_at = 0

\* C14: a simple creation (num_installments = 1, not recurring) persists
\* exactly one row, with the arguments of the call, no installment group and
\* no recurring group, no position or count of either kind, no frequency and
\* is_recurring false; the row is the one returned.
C14_SimpleCreationPersistsOneUngroupedRow ==
    SimpleCreated =>
        /\ Cardinality(Inserted) = 1
        /\ transactions = before \cup Inserted
        /\ Len(ret.value) = 1
        /\ \A r \in Inserted :
              /\ ret.value[1] = r
              /\ r.user_id = ret.args.user_id
              /\ r.type = ret.args.type
              /\ r.amount = ret.args.total_amount
              /\ r.date = ret.args.date_str
              /\ r.description = ret.args.description
              /\ r.installment_group_id = NULL
              /\ r.installment_number = NULL
              /\ r.total_installments = NULL
              /\ r.is_recurring = FALSE
              /\ r.recurring_group_id = NULL
              /\ r.recurrence_frequency = NULL_TEXT
              /\ r.occurrence_number = NULL
              /\ r.total_occurrences_in_group = NULL

C14_Witness ==
    /\ SimpleCreated
    /\ ret.args.total_amount > 0
    /\ Cardinality(transactions) = 1

\* days from 0001-01-01, counted without stepping through the calendar
Ordinal(dt) ==
    LET y == dt.year - 1
        cumulative == <<0, 31, 59, 90, 120, 151, 181, 212, 243, 273, 304, 334>>
    IN  y * 365 + (y \div 4) - (y \div 100) + (y \div 400)
        + cumulative[dt.month] + (IF dt.month > 2 /\ IsLeap(dt.year) THEN 1 ELSE 0)
        + dt.day

\* months from year 0
MonthIndex(dt) == dt.year * 12 + (dt.month - 1)

\* dt is the date with index i (0 for the start itself) of the cadence
IsDateOfCadence(start, cadence, i, dt) ==
    IF cadence = "weekly" THEN Ordinal(dt) = Ordinal(start) + 7 * i
    ELSE IF cadence = "monthly"
    THEN /\ MonthIndex(dt) = MonthIndex(start) + i
         /\ dt.day = Min(start.day, DaysInMonth(dt.year, dt.month))
    ELSE /\ dt.year = start.year + i
         /\ dt.month = start.month
         /\ dt.day = IF start.month = 2 /\ start.day = 29 /\ ~IsLeap(dt.year) THEN 28 ELSE start.day

\* the last call asked for one or more occurrences of a recurring transaction
RecurringAsked ==
    /\ ret.op = "add_transaction"
    /\ ret.args.is_recurring_input
    /\ ret.args.num_occurrences_to_generate_input >= 1

\* C15: a recurring creation with amount A, cadence c and N >= 1 occurrences
\* that succeeds persists exactly N rows: they share one recurring group
\* identifier, are flagged is_recurring, carry frequency c, occurrence numbers
\* 1..N and total N, each the amount A (not A / N), and the row numbered k is
\* dated the date with index k - 1 of cadence c from the start date (weekly:
\* start + 7 * (k - 1) days).  A call with a recognized cadence whose dates
\* stay inside the calendar and whose INSERTs do not fail succeeds.
C15_RecurringCreationPersistsOccurrences ==
    RecurringAsked =>
        LET N == ret.args.num_occurrences_to_generate_input
            start == Strptime(ret.args.date_str)
        IN  /\ (/\ ret.args.recurrence_frequency_input \in {"mensal", "semanal", "anual"}
                /\ ret.args.fail_at = 0
                /\ start.year + N <= MAXYEAR) => ret.value # <<>>
            /\ ret.value # <<>> =>
                  /\ Cardinality(Inserted) = N
                  /\ transactions = before \cup Inserted
                  /\ Range(ret.value) = Inserted
                  /\ {r.occurrence_number : r \in Inserted} = 1..N
                  /\ \A r, q \in Inserted : r.recurring_group_id = q.recurring_group_id
                  /\ \A r \in Inserted :
                        /\ r.recurring_group_id # NULL
                        /\ r.recurring_group_id \notin {q.recurring_group_id : q \in before}
                        /\ r.is_recurring = TRUE
                        /\ r.recurrence_frequency = FREQUENCY_MAPPING[ret.args.recurrence_frequency_input]
                        /\ r.total_occurrences_in_group = N
                        /\ r.amount = ret.args.total_amount
                        /\ IsDateOfCadence(start, r.recurrence_frequency, r.occurrence_number - 1,
                                           Strptime(r.date))

\* three weekly occurrences of 0.07 each, the last one in the next year
C15_Witness ==
    /\ RecurringAsked
    /\ ret.args.recurrence_frequency_input = "semanal"
    /\ ret.args.num_occurrences_to_generate_input = 3
    /\ ret.args.total_amount = 70
    /\ ret.args.date_str = Strftime(Date(2023, 12, 25))
    /\ Cardinality(transactions) = 3
    /\ \E r \in transactions : r.occurrence_number = 3 /\ r.date = Strftime(Date(2024, 1, 8))

\* the last call asked for a purchase paid in two or more installments
InstallmentsAsked ==
    /\ ret.op = "add_transaction"
    /\ ret.args.num_installments > 1
    /\ ~ret.args.is_recurring_input

\* C16: an installment creation with N > 1 that succeeds persists exactly N
\* rows: they share one installment group identifier no earlier row carries,
\* have installment numbers 1..N and total N, the row numbered k is labelled
\* base + " (k/N)" and dated k - 1 months after the start date (monthly
\* whatever cadence is passed), and no recurring column is set.  A call whose
\* dates stay inside the calendar and whose INSERTs do not fail succeeds.
C16_InstallmentCreationPersistsInstallments ==
    InstallmentsAsked =>
        LET N == ret.args.num_installments
            start == Strptime(ret.args.date_str)
        IN  /\ (ret.args.fail_at = 0 /\ start.year < MAXYEAR) => ret.value # <<>>
            /\ ret.value # <<>> =>
                  /\ Cardinality(Inserted) = N
                  /\ transactions = before \cup Inserted
                  /\ Range(ret.value) = Inserted
                  /\ {r.installment_number : r \in Inserted} = 1..N
                  /\ \A r, q \in Inserted : r.installment_group_id = q.installment_group_id
                  /\ \A r \in Inserted :
                        /\ r.installment_group_id # NULL
                        /\ r.installment_group_id \notin {q.installment_group_id : q \in before}
                        /\ r.total_installments = N
                        /\ r.description = ret.args.description \o <<" ", "(">>
                                            \o Str(r.installment_number) \o <<"/">> \o Str(N) \o <<")">>
                        /\ IsDateOfCadence(start, "monthly", r.installment_number - 1, Strptime(r.date))
                        /\ r.is_recurring = FALSE
                        /\ r.recurring_group_id = NULL
                        /\ r.recurrence_frequency = NULL_TEXT
                        /\ r.occurrence_number = NULL
                        /\ r.total_occurrences_in_group = NULL

\* three installments from 2024-01-31 asked with a weekly cadence: they fall
\* on 2024-01-31, 2024-02-29 and 2024-03-31
C16_Witness ==
    /\ InstallmentsAsked
    /\ ret.args.num_installments = 3
    /\ ret.args.recurrence_frequency_input = "semanal"
    /\ ret.args.date_str = Strftime(Date(2024, 1, 31))
    /\ {r.date : r \in transactions}
         = {Strftime(Date(2024, 1, 31)), Strftime(Date(2024, 2, 29)), Strftime(Date(2024, 3, 31))}

\* the last call computed the date with index i of this frequency
DateAsked(frequency) ==
    /\ ret.op = "calculate_next_occurrence_date"
    /\ ret.args.frequency = frequency

\* C17: the monthly date with index i lies in the calendar month i months
\* after the start month and its day is min(start day, days in that month):
\* 2024-01-31 gives 2024-02-29 for i = 1 and 2024-03-31 for i = 2, and
\* 2023-01-31 gives 2023-02-28 for i = 1.  There is a date whenever that
\* month is in the calendar (year <= 9999), and an exception otherwise.
C17_MonthlyDateClampsToMonthEnd ==
    DateAsked("monthly") =>
        LET start == ret.args.start_date
            i == ret.args.occurrence_index
            target == MonthIndex(start) + i
        IN  /\ IsError(ret.value) <=> (target \div 12) > MAXYEAR
            /\ ~IsError(ret.value) =>
                  /\ MonthIndex(ret.value) = target
                  /\ ret.value.day = Min(start.day, DaysInMonth(target \div 12, (target % 12) + 1))
            /\ (start = Date(2024, 1, 31) /\ i = 1) => ret.value = Date(2024, 2, 29)
            /\ (start = Date(2023, 1, 31) /\ i = 1) => ret.value = Date(2023, 2, 28)
            /\ (start = Date(2024, 1, 31) /\ i = 2) => ret.value = Date(2024, 3, 31)

\* 31 January of a leap year plus one month
C17_Witness ==
    /\ DateAsked("monthly")
    /\ ret.args.start_date = Date(2024, 1, 31)
    /\ ret.args.occurrence_index = 1
    /\ ret.value = Date(2024, 2, 29)

\* C18: the yearly date with index i has the month and the day of the start
\* date in the year i years later, except that a 29 February start gives
\* 28 February in a target year that is not a leap year (and 29 February
\* again in one that is).  There is a date whenever the target year is in
\* the calendar, and an exception otherwise.
C18_YearlyDateKeepsMonthAndDay ==
    DateAsked("yearly") =>
        LET start == ret.args.start_date
            y == start.year + ret.args.occurrence_index
        IN  /\ IsError(ret.value) <=> y > MAXYEAR
            /\ ~IsError(ret.value) =>
                  /\ ret.value.year = y
                  /\ ret.value.month = start.month
                  /\ ret.value.day = IF start.month = 2 /\ start.day = 29 /\ ~IsLeap(y)
                                     THEN 28 ELSE start.day

\* 29 February 2024 plus four years is 29 February 2028
C18_Witness ==
    /\ DateAsked("yearly")
    /\ ret.args.start_date = Date(2024, 2, 29)
    /\ ret.args.occurrence_index = 4
    /\ ret.value = Date(2028, 2, 29)

C20_InvalidCreationRejected ==
    (/\ ret.op = "add_transaction"
     /\ \/ ret.args.total_amount <= 0
        \/ Strip(ret.args.description) = <<>>)
    => /\ ret.value = <<>>
       /\ transactions = before

\* the group identifiers of either kind carried by the rows of a table
GroupIdsIn(table) ==
    ({r.installment_group_id : r \in table} \cup {r.recurring_group_id : r \in table}) \ {NULL}

\* C21: group identifiers are never reused.  Before a call the identifiers
\* generated so far are 1..uuids and every identifier in the table is one of
\* them; the rows a creation call adds carry at most one group identifier,
\* and it is none of those, whether or not the earlier group is still in the
\* table; and no identifier is held both as an installment group and as a
\* recurring group.
C21_GroupIdentifiersNeverReused ==
    [][/\ GroupIdsIn(transactions) \subseteq 1..uuids
       /\ GroupIdsIn(transactions') \subseteq 1..uuids'
       /\ InstallmentGroupIds(transactions')
            \cap ({r.recurring_group_id : r \in transactions'} \ {NULL}) = {}
       /\ ret'.op = "add_transaction" =>
             /\ Cardinality(GroupIdsIn(transactions' \ transactions)) <= 1
             /\ GroupIdsIn(transactions' \ transactions) \cap (1..uuids) = {}]_vars

\* a second group was created after the first one had been removed whole
C21_Witness ==
    /\ ret.op = "add_transaction"
    /\ GroupIdsIn(Inserted) = {2}
    /\ before = {}
    /\ seq >= 4

\* C22: in every state the rows sharing one group identifier have the same
\* owner, the same type (income or expense) and, in a recurring group, the
\* same frequency.
C22_GroupMembersShareOwnerTypeFrequency ==
    \A g \in GroupsIn(transactions) :
        \A r, q \in Members(g) :
            /\ r.user_id = q.user_id
            /\ r.type = q.type
            /\ r.recurrence_frequency = q.recurrence_frequency

\* the label add_transaction gives the member r of a group of this kind
CreationLabel(field, base, r) ==
    IF field = "installment_group_id"
    THEN InstallmentDescription(base, r.installment_number, r.total_installments)
    ELSE OccurrenceDescription(base, r.occurrence_number, r.total_occurrences_in_group)

\* C23: renaming a group (installment or recurring) to the base description
\* it was created with leaves every member with the description it received
\* at creation.
C23_RenameToCreationBaseKeepsLabels ==
    Renamed =>
        LET field == ret.args.group_field_name
            base == ret.args.new_base_description
            members == {r \in before : r[field] = ret.args.group_id}
        IN  (\A r \in members : r.description = CreationLabel(field, base, r))
            => transactions = before

\* C24: the extra cents of an installment split are front-loaded.  With
\* base = cents // N and remainder = cents % N, the installments numbered
\* 1..remainder get base + 1 cents and the others base cents, so the amounts
\* never increase with the position; 100.00 in 3 parts is 33.34, 33.33, 33.33.
C24_ExtraCentsFrontLoaded ==
    (InstallmentsAsked /\ ret.value # <<>>) =>
        LET N == ret.args.num_installments
            cents == RoundCents(ret.args.total_amount)
            base == cents \div N
            remainder == cents % N
        IN  /\ \A r \in Inserted :
                  r.amount = 10 * (IF r.installment_number <= remainder THEN base + 1 ELSE base)
            /\ \A r, q \in Inserted :
                  r.installment_number < q.installment_number => r.amount >= q.amount
            /\ (ret.args.total_amount = 100000 /\ N = 3) =>
                  \A r \in Inserted :
                      r.amount = IF r.installment_number = 1 THEN 33340 ELSE 33330

\* 100.00 in three installments
C24_Witness ==
    /\ InstallmentsAsked
    /\ ret.args.total_amount = 100000
    /\ ret.args.num_installments = 3
    /\ {<<r.installment_number, r.amount>> : r \in transactions}
         = {<<1, 33340>>, <<2, 33330>>, <<3, 33330>>}

\* the last call was a save of the edit dialog
Edited == ret.op = "EditTransactionDialog"

\* the group of the row the dialog was opened on
EditedGroup ==
    IF ret.args.transaction.installment_group_id # NULL
    THEN <<"installment_group_id", ret.args.transaction.installment_group_id>>
    ELSE <<"recurring_group_id", ret.args.transaction.recurring_group_id>>

\* the row as it was when the dialog was saved
Earlier(r) == CHOOSE q \in before : q.id = r.id

\* C25: an edit saved with "apply the description change to the whole group"
\* never leaves the group half-renamed: afterwards either every member of the
\* group, the edited row included, carries the new base description, or no
\* member's description has changed, even when the group-wide update fails
\* after the update of the edited row.
C25_GroupDescriptionEditIsAllOrNothing ==
    (Edited /\ ret.args.apply_desc_to_group) =>
        \/ \A r \in Members(EditedGroup) :
              r.description = Strip(ret.args.description_text) \o Suffix(EditedGroup, r)
        \/ \A r \in Members(EditedGroup) : r.description = Earlier(r).description

\* C26: update_transaction(id, ...) changes only the type, amount, date and
\* description of the row with that id: its id, owner, group identifiers,
\* positions, counts, is_recurring flag and frequency stay as they were and
\* every other row is unchanged; when no row has that id it returns False
\* and the table is unchanged.
C26_UpdateTransactionFrame ==
    ret.op = "update_transaction" =>
        LET hit == {r \in before : r.id = ret.args.transaction_id}
            written(r) == [r EXCEPT !.type = ret.args.type_val,
                                   !.amount = ret.args.amount_val,
                                   !.date = ret.args.date_val,
                                   !.description = ret.args.description_val]
        IN  /\ hit = {} => ret.value = FALSE /\ transactions = before
            /\ before \ hit \subseteq transactions
            /\ Cardinality(transactions) = Cardinality(before)
            /\ \A r \in hit : r \in transactions \/ written(r) \in transactions
            /\ (hit # {} /\ ~ret.args.fail) =>
                  /\ ret.value = TRUE
                  /\ \A r \in hit : written(r) \in transactions

\* a member of a group was updated while other rows were in the table
C26_Witness ==
    /\ ret.op = "update_transaction"
    /\ ret.value = TRUE
    /\ Cardinality(before) >= 3
    /\ \E r \in before : /\ r.id = ret.args.transaction_id
                         /\ r.recurring_group_id # NULL
                         /\ r.type # ret.args.type_val
                         /\ r \notin transactions

\* the dialog was saved with every field as it was filled and no option ticked
SavedUntouched ==
    /\ Edited
    /\ ret.args.transaction \in before
    /\ ret.args.amount = ret.args.transaction.amount
    /\ ret.args.date_str_db = ret.args.transaction.date
    /\ ret.args.description_text = base_description_for_edit(ret.args.transaction)
    /\ ~ret.args.apply_desc_to_group
    /\ ~ret.args.apply_amount_to_future

\* C27: opening the edit dialog on a grouped row (installment or recurring)
\* and saving it with no field changed leaves the description of that row
\* exactly as it was, however many times this is repeated.
C27_SaveWithoutChangeKeepsLabel ==
    SavedUntouched =>
        \A r \in transactions :
            r.id = ret.args.transaction.id => r.description = ret.args.transaction.description

\* C28: an add_transaction call made with is_recurring_input true persists
\* either nothing or only rows that carry a recurring_group_id and are
\* flagged is_recurring: never an ungrouped row or an installment group,
\* whatever the number of occurrences asked for, 0 included.
C28_RecurringInputPersistsOnlyRecurringRows ==
    (ret.op = "add_transaction" /\ ret.args.is_recurring_input) =>
        \A r \in Inserted :
            /\ r.recurring_group_id # NULL
            /\ r.is_recurring = TRUE
            /\ r.installment_group_id = NULL

\* the tables before and after the last call hold the same row ids
SameRows ==
    /\ {r.id : r \in transactions} = {q.id : q \in before}
    /\ Cardinality(transactions) = Cardinality(before)

\* C29: group rename and group reprice write only their own column of their
\* own group.  update_group_base_description leaves every column but the
\* description of every row as it was, and the rows outside the group whole;
\* update_recurring_group_future_amounts leaves every column but the amount
\* of every row as it was, and the rows outside the group whole.
C29_RenameAndRepriceFrame ==
    /\ ret.op = "update_group_base_description" =>
          /\ SameRows
          /\ \A r \in transactions :
                /\ [r EXCEPT !.description = Earlier(r).description] = Earlier(r)
                /\ (ret.args.group_field_name \in allowed_fields
                    /\ r[ret.args.group_field_name] = ret.args.group_id) \/ r = Earlier(r)
    /\ ret.op = "update_recurring_group_future_amounts" =>
          /\ SameRows
          /\ \A r \in transactions :
                /\ [r EXCEPT !.amount = Earlier(r).amount] = Earlier(r)
                /\ r.recurring_group_id = ret.args.recurring_group_id \/ r = Earlier(r)

\* a reprice changed members of its group while a row outside the group,
\* dated on or after from_date, held another amount
C29_Witness ==
    /\ Repriced
    /\ ret.value[2] >= 1
    /\ transactions # before
    /\ \E r \in before : /\ r.recurring_group_id # ret.args.recurring_group_id
                         /\ DayNumber(r.date) >= DayNumber(ret.args.from_date_str)
                         /\ r.amount # ret.args.new_amount

\* C30: after an edit of a recurring row saved with "apply the amount to this
\* and future occurrences", the edited row and every member of its group
\* dated on or after the date the edited row was saved with carry the new
\* amount, and every member dated before it keeps the amount it had, also
\* when the edit changes the date of the row.
C30_AmountAppliedFromSavedDate ==
    (/\ Edited
     /\ ret.args.apply_amount_to_future
     /\ ret.value = TRUE
     /\ ret.error = "none") =>
        \A r \in Members(EditedGroup) :
            r.amount = IF \/ r.id = ret.args.transaction.id
                          \/ DayNumber(r.date) >= DayNumber(ret.args.date_str_db)
                       THEN ret.args.amount
                       ELSE Earlier(r).amount

====
